---- MODULE Spec2Model ----
(***************************************************************************)
(* A model of ultimate_pipeline.py: TestParser.parse_results,              *)
(* CommandRunner.run, DiagnosticsEngine.analyze_build_output,              *)
(* ReportGenerator.generate_html and the stage workers of                  *)
(* UltimatePipelineApp.                                                    *)
(*                                                                         *)
(* Text is a sequence of tokens.  Every token stands for a fixed piece of  *)
(* text (a literal of one of the two regular expressions, one digit, a     *)
(* dot, a newline, an identifier component or a piece of other text), and  *)
(* no literal of a pattern can match across a token boundary, so matching  *)
(* on tokens is matching on the characters.                                *)
(***************************************************************************)
EXTENDS Integers, Sequences, FiniteSets, TLC

VARIABLES
    output,       \* parse_results: the captured text handed to the parser
    parsed,       \* parse_results: its outcome, NoResult before the call
    rpc,          \* run: "start", "loop", "returned" (line 226), "except" (line 228)
    callback,     \* run: whether a line sink was passed
    process,      \* run: the spawned process: its state and its exit status
    pipe,         \* run: lines written by the process and not yet read
    produced,     \* run: every line the process has written so far
    output_lines, \* run: the local list output_lines
    sink,         \* run: the lines the callback has been called with, in order
    ret,          \* run: the returned triple, NoResult before the return
    build_output, \* analyze_build_output: the text handed to the scan
    scanned,      \* analyze_build_output: the returned list, NoResult before
    args,         \* generate_html: its arguments (project_config, tests, issues, build_success)
    locals,       \* generate_html: its local counts, NoResult before the call
    html,         \* generate_html: the returned document, NoResult before
    project_config,    \* app: self.project_config
    selected_target,   \* app: self.selected_target
    test_results,      \* app: self.test_results
    diagnostic_issues, \* app: self.diagnostic_issues
    build_success,     \* app: self.build_success
    stats,             \* app: the texts of the statistics widgets
    threads,           \* app: the worker threads started so far, in start order
    dialog             \* app: the text of the message box that is open, "" for none

parseVars == <<output, parsed>>
runVars == <<rpc, callback, process, pipe, produced, output_lines, sink, ret>>
scanVars == <<build_output, scanned>>
reportVars == <<args, locals, html>>
runState == <<test_results, diagnostic_issues, build_success>>
appVars == <<project_config, selected_target, runState, stats, threads, dialog>>
vars == <<parseVars, runVars, scanVars, reportVars, appVars>>

\* the value of a result variable before the call has ended
NoResult == [pending |-> TRUE]

(***************************************************************************)
(* Bounds of the model.                                                    *)
(***************************************************************************)
\* lines of text handed to the parser
MaxLines == 3
\* lines the spawned process writes before it exits
MaxProduced == 3
\* the largest number of worker threads started in a session
MaxThreads == 2
\* the largest number of outcome records handed to generate_html
MaxTests == 52
\* the largest number of diagnostic records handed to generate_html
MaxIssues == 120

(***************************************************************************)
(* Tokens.                                                                 *)
(***************************************************************************)
TC == "Test Case '"
PASSED == "' passed ("
FAILED == "' failed ("
SEC == " seconds)"
EXEC == "Executed "
TESTS == " tests, with "
TEST1 == " test, with "
FAILS == " failures"
FAIL1 == " failure"
DOT == "."
NL == "\n"

DigitValue ==
    ("0" :> 0) @@ ("1" :> 1) @@ ("2" :> 2) @@ ("3" :> 3) @@ ("4" :> 4) @@
    ("5" :> 5) @@ ("6" :> 6) @@ ("7" :> 7) @@ ("8" :> 8) @@ ("9" :> 9)

\* \d
IsDigit(t) == t \in DOMAIN DigitValue

\* [\d.]
IsDurationChar(t) == IsDigit(t) \/ t = DOT

Min(S) == CHOOSE x \in S : \A y \in S : x <= y
Max(S) == CHOOSE x \in S : \A y \in S : x >= y

(***************************************************************************)
(* The conversions int() and float() on the texts the patterns let through.*)
(***************************************************************************)
\* int(text) for text matching \d+
int(text) ==
    LET F[i \in 0..Len(text)] ==
            IF i = 0 THEN 0 ELSE F[i - 1] * 10 + DigitValue[text[i]]
    IN  F[Len(text)]

\* float(text) raises ValueError unless text, made of digits and dots, has
\* at most one dot and at least one digit
FloatRaises(text) ==
    \/ Cardinality({i \in 1..Len(text) : text[i] = DOT}) > 1
    \/ \A i \in 1..Len(text) : ~IsDigit(text[i])

RECURSIVE Reduce(_, _)
\* the decimal m * 10^-e without trailing zeros after the point
Reduce(m, e) ==
    IF e > 0 /\ m % 10 = 0 THEN Reduce(m \div 10, e - 1) ELSE [m |-> m, e |-> e]

\* float(text): the value as a reduced decimal [m, e] = m * 10^-e
float(text) ==
    LET dots == {i \in 1..Len(text) : text[i] = DOT}
        digits == SelectSeq(text, IsDigit)
        e == IF dots = {} THEN 0 ELSE Len(text) - Min(dots)
    IN  Reduce(int(digits), e)

(***************************************************************************)
(* re.finditer(r"Test Case '(.*?)' (passed|failed) \(([\d.]+) seconds\)")  *)
(***************************************************************************)
\* the last position of the longest run of [\d.] starting at j (j-1: none)
DurationEnd(s, j) ==
    LET ks == {k \in j..Len(s) : \A q \in j..k : IsDurationChar(s[q])}
    IN  IF ks = {} THEN j - 1 ELSE Max(ks)

\* "' (passed|failed) \(([\d.]+) seconds\)" matches at position j
StatusMatchesAt(s, j) ==
    /\ j <= Len(s)
    /\ s[j] \in {PASSED, FAILED}
    /\ DurationEnd(s, j + 1) >= j + 1
    /\ DurationEnd(s, j + 1) + 1 <= Len(s)
    /\ s[DurationEnd(s, j + 1) + 1] = SEC

\* NameEnds with a '.' that matches a newline too (re.DOTALL)
NameEnds_DotAll(s, i) ==
    {j \in (i + 1)..Len(s) : StatusMatchesAt(s, j)}

\* where the name group (.*?) started at i+1 can end: '.' matches no newline
NameEnds(s, i) ==
    {j \in (i + 1)..Len(s) :
        /\ \A q \in (i + 1)..(j - 1) : s[q] # NL
        /\ StatusMatchesAt(s, j)}

\* the match object of the pattern at position i: (.*?) is lazy, so the
\* name ends at the first place where the rest of the pattern matches
MatchAt(s, i) ==
    LET j == Min(NameEnds(s, i))
        k == DurationEnd(s, j + 1)
    IN  [group1 |-> SubSeq(s, i + 1, j - 1),
         group2 |-> IF s[j] = PASSED THEN "passed" ELSE "failed",
         group3 |-> SubSeq(s, j + 1, k),
         end |-> k + 1]

RECURSIVE finditerFrom(_, _)
finditerFrom(s, i) ==
    IF i > Len(s) THEN <<>>
    ELSE IF s[i] = TC /\ NameEnds(s, i) # {}
         THEN <<MatchAt(s, i)>> \o finditerFrom(s, MatchAt(s, i).end + 1)
         ELSE finditerFrom(s, i + 1)

\* the matches of the per-case pattern, leftmost first, not overlapping
finditer(s) == finditerFrom(s, 1)

(***************************************************************************)
(* re.search(r"Executed (\d+) tests?, with (\d+) failures?")               *)
(***************************************************************************)
\* the last position of the longest run of \d starting at j (j-1: none)
DigitsEnd(s, j) ==
    LET ks == {k \in j..Len(s) : \A q \in j..k : IsDigit(s[q])}
    IN  IF ks = {} THEN j - 1 ELSE Max(ks)

SummaryMatchesAt(s, i) ==
    LET a == DigitsEnd(s, i + 1)
        b == DigitsEnd(s, a + 2)
    IN  /\ s[i] = EXEC
        /\ a >= i + 1
        /\ a + 1 <= Len(s)
        /\ s[a + 1] \in {TESTS, TEST1}
        /\ b >= a + 2
        /\ b + 1 <= Len(s)
        /\ s[b + 1] \in {FAILS, FAIL1}

SummaryStarts(s) == {i \in 1..Len(s) : SummaryMatchesAt(s, i)}

\* the match object of the first summary line (callers check there is one)
search(s) ==
    LET i == Min(SummaryStarts(s))
        a == DigitsEnd(s, i + 1)
        b == DigitsEnd(s, a + 2)
    IN  [group1 |-> SubSeq(s, i + 1, a), group2 |-> SubSeq(s, a + 2, b)]

(***************************************************************************)
(* TestParser.parse_results                                                *)
(***************************************************************************)
RECURSIVE split(_)
\* test_name.split('.')
split(s) ==
    LET dots == {i \in 1..Len(s) : s[i] = DOT}
    IN  IF dots = {} THEN <<s>>
        ELSE <<SubSeq(s, 1, Min(dots) - 1)>>
                 \o split(SubSeq(s, Min(dots) + 1, Len(s)))

\* NormalizeName keeping the first two components: f"{parts[0]}.{parts[1]}"
NormalizeName_FirstTwo(test_name) ==
    IF \E i \in 1..Len(test_name) : test_name[i] = DOT
    THEN LET parts == split(test_name)
         IN  parts[1] \o <<DOT>> \o parts[2]
    ELSE test_name

\* lines 242-245: f"{parts[-2]}.{parts[-1]}" when the name has a dot
NormalizeName(test_name) ==
    IF \E i \in 1..Len(test_name) : test_name[i] = DOT
    THEN LET parts == split(test_name)
         IN  IF Len(parts) >= 2
             THEN parts[Len(parts) - 1] \o <<DOT>> \o parts[Len(parts)]
             ELSE test_name
    ELSE test_name

\* lines 238-251: the record appended for one match
TestResult(match) ==
    [name |-> NormalizeName(match.group1),
     status |-> match.group2,
     duration |-> float(match.group3)]

CountStatus(tests, st) ==
    Cardinality({i \in 1..Len(tests) : tests[i].status = st})

\* Totals with passed counted from the records on the summary branch too
Totals_PassedCounted(text, tests) ==
    IF SummaryStarts(text) # {}
    THEN [total |-> int(search(text).group1),
          passed |-> CountStatus(tests, "passed"),
          failed |-> int(search(text).group2)]
    ELSE [total |-> Len(tests),
          passed |-> CountStatus(tests, "passed"),
          failed |-> CountStatus(tests, "failed")]

\* lines 256-265: total, passed, failed
Totals(text, tests) ==
    IF SummaryStarts(text) # {}
    THEN LET total == int(search(text).group1)
             failed == int(search(text).group2)
         IN  [total |-> total, passed |-> total - failed, failed |-> failed]
    ELSE IF tests # <<>>
    THEN [total |-> Len(tests),
          passed |-> CountStatus(tests, "passed"),
          failed |-> CountStatus(tests, "failed")]
    ELSE [total |-> 0, passed |-> 0, failed |-> 0]

\* the outcome of parse_results(text): float() raising ValueError in the
\* loop over the matches ends the call before anything is returned
parse_results(text) ==
    LET ms == finditer(text)
    IN  IF \E i \in 1..Len(ms) : FloatRaises(ms[i].group3)
        THEN [raised |-> "ValueError"]
        ELSE LET tests == [i \in 1..Len(ms) |-> TestResult(ms[i])]
                 t == Totals(text, tests)
             IN  [raised |-> "",
                  tests |-> tests,
                  total |-> t.total,
                  passed |-> t.passed,
                  failed |-> t.failed]

(***************************************************************************)
(* The texts the parser is run on: up to MaxLines lines of tool output.    *)
(***************************************************************************)
CaseLine(name, status, dur) == <<TC>> \o name \o <<status>> \o dur \o <<SEC>>

OutputLines ==
    { CaseLine(<<"testSomething">>, PASSED, <<"0", DOT, "5">>),
      CaseLine(<<"LoginTests", DOT, "testValidLogin">>, FAILED, <<"1", "2">>),
      CaseLine(<<"MyAppTests", DOT, "LoginTests", DOT, "testValidLogin">>,
               PASSED, <<"1", DOT, "5", "0">>),
      CaseLine(<<"testSomething">>, FAILED, <<"1", DOT, "2", DOT, "3">>),
      CaseLine(<<"testSomething", PASSED, "x">>, FAILED, <<DOT, "5">>),
      <<EXEC, "1", "2", TESTS, "3", FAILS>>,
      <<EXEC, "1", TEST1, "0", FAILS>>,
      <<EXEC, "1", TESTS, "2", FAIL1>>,
      <<EXEC, "x", TESTS, "3", FAILS>>,
      <<TC, "testSomething">>,
      <<PASSED, "0", DOT, "5", SEC>>,
      <<"** TEST FAILED **">> }

LineCount(text) == Cardinality({i \in 1..Len(text) : text[i] = NL})

\* the tool writes one more line of output
Capture(line) ==
    /\ parsed = NoResult
    /\ LineCount(output) < MaxLines
    /\ output' = output \o line \o <<NL>>
    /\ UNCHANGED parsed

\* tests, total, passed, failed = TestParser.parse_results(output)
Parse ==
    /\ parsed = NoResult
    /\ parsed' = parse_results(output)
    /\ UNCHANGED output

(***************************************************************************)
(* CommandRunner.run                                                       *)
(***************************************************************************)
\* a line of bytes that text=True cannot decode: readline raises on it
UNDECODABLE == "<0xff>"

\* the lines the spawned process may write, each with its line end
ProcessLines ==
    { CaseLine(<<"testSomething">>, PASSED, <<"0", DOT, "5">>) \o <<NL>>,
      <<"main.swift:3: error: x", NL>>,
      <<UNDECODABLE, NL>> }

\* the exit statuses of the spawned process (negative: ended by a signal)
ExitCodes == {0, 1, 65, -9}

\* what Popen raises when the executable cannot be launched
LaunchErrors == {"FileNotFoundError", "PermissionError"}

\* what the line sink may raise (called from the worker thread)
CallbackErrors == {"RuntimeError", "Exception"}

\* str(e)
str(e) ==
    CASE e = "FileNotFoundError" ->
             "[Errno 2] No such file or directory: 'xcodebuild'"
      [] e = "PermissionError" -> "[Errno 13] Permission denied: 'xcodebuild'"
      [] e = "UnicodeDecodeError" ->
             "'utf-8' codec can't decode byte 0xff in position 0: invalid start byte"
      [] e = "RuntimeError" -> "main thread is not in main loop"
      [] OTHER -> ""

RECURSIVE join(_)
\* "".join(output_lines)
join(lines) ==
    IF lines = <<>> THEN <<>> ELSE Head(lines) \o join(Tail(lines))

\* ReturnTriple that takes every status but a signal's for a success
ReturnTriple_NonNegative(returncode, lines) ==
    [succeeded |-> returncode >= 0, output |-> join(lines), error |-> ""]

\* line 226: return process.returncode == 0, output, ""
ReturnTriple(returncode, lines) ==
    [succeeded |-> returncode = 0, output |-> join(lines), error |-> ""]

\* lines 227-228: return False, "", str(e)
ExceptTriple(e) ==
    [succeeded |-> FALSE, output |-> <<>>, error |-> str(e)]

NoProcess == [state |-> "none", returncode |-> <<>>]

\* lines 207-214: subprocess.Popen starts the process
PopenStarts ==
    /\ rpc = "start"
    /\ rpc' = "loop"
    /\ process' = [state |-> "running", returncode |-> <<>>]
    /\ UNCHANGED <<callback, pipe, produced, output_lines, sink, ret>>

\* PopenRaises with the Popen call outside the try: e leaves run
PopenRaises_Uncaught(e) ==
    /\ rpc = "start"
    /\ rpc' = "raised"
    /\ process' = [state |-> "failed", returncode |-> <<>>]
    /\ UNCHANGED <<callback, pipe, produced, output_lines, sink, ret>>

\* lines 207-214, 227-228: subprocess.Popen raises e
PopenRaises(e) ==
    /\ rpc = "start"
    /\ rpc' = "except"
    /\ process' = [state |-> "failed", returncode |-> <<>>]
    /\ ret' = ExceptTriple(e)
    /\ UNCHANGED <<callback, pipe, produced, output_lines, sink>>

\* the process writes a line to its merged stdout and stderr
ProcessWrites(line) ==
    /\ rpc = "loop"
    /\ process.state = "running"
    /\ Len(produced) < MaxProduced
    /\ pipe' = Append(pipe, line)
    /\ produced' = Append(produced, line)
    /\ UNCHANGED <<rpc, callback, process, output_lines, sink, ret>>

\* the process exits, which closes its end of the pipe
ProcessExits(code) ==
    /\ rpc = "loop"
    /\ process.state = "running"
    /\ process' = [state |-> "exited", returncode |-> <<code>>]
    /\ UNCHANGED <<rpc, callback, pipe, produced, output_lines, sink, ret>>

\* ReadLine that puts the line at the front: output_lines.insert(0, line)
ReadLine_Prepend ==
    /\ rpc = "loop"
    /\ pipe # <<>>
    /\ Head(pipe)[1] # UNDECODABLE
    /\ pipe' = Tail(pipe)
    /\ output_lines' = <<Head(pipe)>> \o output_lines
    /\ sink' = IF callback THEN Append(sink, Head(pipe)) ELSE sink
    /\ UNCHANGED <<rpc, callback, process, produced, ret>>

\* lines 217-222: readline returns a line, it is appended and forwarded
ReadLine ==
    /\ rpc = "loop"
    /\ pipe # <<>>
    /\ Head(pipe)[1] # UNDECODABLE
    /\ pipe' = Tail(pipe)
    /\ output_lines' = Append(output_lines, Head(pipe))
    /\ sink' = IF callback THEN Append(sink, Head(pipe)) ELSE sink
    /\ UNCHANGED <<rpc, callback, process, produced, ret>>

\* lines 217-222, 227-228: as ReadLine, but the callback raises e
ReadLineCallbackRaises(e) ==
    /\ rpc = "loop"
    /\ pipe # <<>>
    /\ Head(pipe)[1] # UNDECODABLE
    /\ callback
    /\ pipe' = Tail(pipe)
    /\ output_lines' = Append(output_lines, Head(pipe))
    /\ sink' = Append(sink, Head(pipe))
    /\ rpc' = "except"
    /\ ret' = ExceptTriple(e)
    /\ UNCHANGED <<callback, process, produced>>

\* lines 217, 227-228: readline raises UnicodeDecodeError: the text layer
\* reads and decodes all the bytes that wait in the pipe in one piece
ReadLineRaises ==
    /\ rpc = "loop"
    /\ \E i \in 1..Len(pipe) : pipe[i][1] = UNDECODABLE
    /\ pipe' = <<>>
    /\ rpc' = "except"
    /\ ret' = ExceptTriple("UnicodeDecodeError")
    /\ UNCHANGED <<callback, process, produced, output_lines, sink>>

\* lines 217-219, 224-226: readline returns '' at the end of the stream,
\* process.wait() returns and the triple is returned
ReadEOF ==
    /\ rpc = "loop"
    /\ pipe = <<>>
    /\ process.state = "exited"
    /\ rpc' = "returned"
    /\ ret' = ReturnTriple(process.returncode[1], output_lines)
    /\ UNCHANGED <<callback, process, pipe, produced, output_lines, sink>>

(***************************************************************************)
(* DiagnosticsEngine.analyze_build_output                                  *)
(***************************************************************************)
\* a blank, which str.strip() removes at both ends of a line
SP == " "

\* str.lower() on the tokens of build output that hold capitals
lower(t) ==
    CASE t = "ERROR:" -> "error:"
      [] t = "Error:" -> "error:"
      [] t = "Warning:" -> "warning:"
      [] t = "** BUILD FAILED **" -> "** build failed **"
      [] OTHER -> t

\* marker in line.lower()
ContainsLowered(line, marker) ==
    \E i \in 1..Len(line) : lower(line[i]) = marker

\* line.strip()
strip(line) ==
    LET solid == {i \in 1..Len(line) : line[i] # SP}
    IN  IF solid = {} THEN <<>> ELSE SubSeq(line, Min(solid), Max(solid))

RECURSIVE splitLines(_)
\* output.split('\n')
splitLines(text) ==
    LET ends == {i \in 1..Len(text) : text[i] = NL}
    IN  IF ends = {} THEN <<text>>
        ELSE <<SubSeq(text, 1, Min(ends) - 1)>>
                 \o splitLines(SubSeq(text, Min(ends) + 1, Len(text)))

\* DiagnosticIssue(category, severity, message): file and line stay None
DiagnosticIssue(category, severity, message) ==
    [category |-> category, severity |-> severity, message |-> message,
     file |-> "None", line |-> "None"]

\* IssuesOfLine with two independent ifs instead of if / elif
IssuesOfLine_TwoIfs(line) ==
    (IF ContainsLowered(line, "error:")
     THEN <<DiagnosticIssue("Build Error", "critical", strip(line))>>
     ELSE <<>>)
    \o (IF ContainsLowered(line, "warning:")
        THEN <<DiagnosticIssue("Build Warning", "warning", strip(line))>>
        ELSE <<>>)

\* lines 276-287: what one line appends to issues
IssuesOfLine(line) ==
    IF ContainsLowered(line, "error:")
    THEN <<DiagnosticIssue("Build Error", "critical", strip(line))>>
    ELSE IF ContainsLowered(line, "warning:")
    THEN <<DiagnosticIssue("Build Warning", "warning", strip(line))>>
    ELSE <<>>

RECURSIVE IssuesOfLines(_)
\* lines 275-287: the loop over the lines
IssuesOfLines(lines) ==
    IF lines = <<>> THEN <<>>
    ELSE IssuesOfLine(Head(lines)) \o IssuesOfLines(Tail(lines))

\* lines 272-289
analyze_build_output(text) == IssuesOfLines(splitLines(text))

\* lines of build output, without their line end
BuildLines ==
    { <<"main.swift:3:", SP, "error:", SP, "x">>,
      <<SP, "main.swift:9:", SP, "warning:", SP, "y", SP>>,
      <<"ld:", SP, "Warning:", SP, "y", SP, "ERROR:", SP, "x">>,
      <<"Error:", SP, "warning:", SP, "x">>,
      <<"2 errors", SP, "warnings", SP, "error", SP>>,
      <<"** BUILD FAILED **">>,
      <<SP>> }

\* the build tool writes one more line of output
CaptureBuild(line) ==
    /\ scanned = NoResult
    /\ LineCount(build_output) < MaxLines
    /\ IF build_output = <<>> THEN TRUE
       ELSE build_output[Len(build_output)] = NL
    /\ build_output' = build_output \o line \o <<NL>>
    /\ UNCHANGED scanned

\* the build tool's output ends with a line that has no line end
CaptureLast(line) ==
    /\ scanned = NoResult
    /\ LineCount(build_output) < MaxLines
    /\ IF build_output = <<>> THEN TRUE
       ELSE build_output[Len(build_output)] = NL
    /\ build_output' = build_output \o line
    /\ UNCHANGED scanned

\* build_issues = DiagnosticsEngine.analyze_build_output(output)
Scan ==
    /\ scanned = NoResult
    /\ scanned' = [issues |-> analyze_build_output(build_output)]
    /\ UNCHANGED build_output

(***************************************************************************)
(* ReportGenerator.generate_html.  The document is modelled by the values  *)
(* it is built from, in the order of the template: the header, the project *)
(* table, the four statistics, the outcome list and the diagnostics list.  *)
(***************************************************************************)
\* tests[:50]
TestCap == 50
\* issues[:100]
IssueCap == 100

\* seq[:n]
Slice(seq, n) == SubSeq(seq, 1, Min({n, Len(seq)}))

\* sum(1 for i in issues if i.severity == severity), over the first n only
SeverityCount_Displayed(issues, severity) ==
    Cardinality({i \in 1..Min({IssueCap, Len(issues)}) :
                    issues[i].severity = severity})

\* sum(1 for i in issues if i.severity == severity)
SeverityCount(issues, severity) ==
    Cardinality({i \in 1..Len(issues) : issues[i].severity = severity})

\* str.upper on the statuses and severities
upper(t) ==
    CASE t = "passed" -> "PASSED" [] t = "failed" -> "FAILED"
      [] t = "critical" -> "CRITICAL" [] t = "warning" -> "WARNING"
      [] t = "info" -> "INFO" [] OTHER -> t

RECURSIVE Pow10(_)
Pow10(n) == IF n = 0 THEN 1 ELSE 10 * Pow10(n - 1)

\* f"{duration:.3f}" for a duration of at most three decimals: the whole
\* seconds and the three decimals
Format3f(duration) ==
    LET thousandths == duration.m * Pow10(3 - duration.e)
    IN  [seconds |-> thousandths \div 1000, decimals |-> thousandths % 1000]

\* Format1f that cuts the digits after the first decimal off
Format1f_Truncated(passed, total) ==
    IF total > 0 THEN (passed * 1000) \div total ELSE 0

\* f"{(passed/total*100) if total > 0 else 0:.1f}": the tenths of a per
\* cent, rounded to nearest, ties to even
Format1f(passed, total) ==
    IF total > 0
    THEN LET q == (passed * 1000) \div total
             r == (passed * 1000) % total
         IN  IF 2 * r > total \/ (2 * r = total /\ q % 2 = 1)
             THEN q + 1 ELSE q
    ELSE 0

\* f"{(passed/total*100) if total > 0 else 0}": the width of the progress
\* bar in per cent, as the ratio it is the value of
ProgressWidth(passed, total) ==
    IF total > 0 THEN [num |-> passed * 100, den |-> total]
    ELSE [num |-> 0, den |-> 1]

\* one <div class="test-item"> of the outcome list
TestItem(test) ==
    [status_class |-> IF test.status = "passed" THEN "passed" ELSE "failed",
     name |-> test.name,
     badge |-> IF test.status = "passed" THEN "success" ELSE "error",
     label |-> upper(test.status),
     duration |-> Format3f(test.duration)]

\* one <li class="issue-item"> of the diagnostics list
IssueItem(issue) ==
    [severity |-> issue.severity,
     category |-> issue.category,
     message |-> issue.message,
     file |-> IF issue.file \in {"None", ""} THEN <<>> ELSE <<issue.file>>,
     label |-> upper(issue.severity)]

\* the items of the outcome records, in their order
TestItems(tests) == [i \in 1..Len(tests) |-> TestItem(tests[i])]

\* the items of the diagnostic records, in their order
IssueItems(issues) == [i \in 1..Len(issues) |-> IssueItem(issues[i])]

\* the local counts of generate_html
ReportCounts(tests, issues) ==
    [passed |-> CountStatus(tests, "passed"),
     failed |-> CountStatus(tests, "failed"),
     total |-> Len(tests),
     critical_issues |-> SeverityCount(issues, "critical"),
     warning_issues |-> SeverityCount(issues, "warning"),
     info_issues |-> SeverityCount(issues, "info")]

\* the returned document; now is the reading of the clock
generate_html(config, tests, issues, built, now) ==
    LET c == ReportCounts(tests, issues)
    IN  [title |-> config.name,
         generated_on |-> now,
         project_name |-> config.name,
         project_type |-> IF config.is_workspace
                          THEN "Workspace" ELSE "Project",
         scheme |-> config.scheme,
         bundle_id |-> IF config.bundle_id \in {"None", ""}
                       THEN "N/A" ELSE config.bundle_id,
         build_status |-> IF built THEN "SUCCESS" ELSE "FAILED",
         tests_passed |-> c.passed,
         of_tests |-> c.total,
         tests_failed |-> c.failed,
         success_rate |-> Format1f(c.passed, c.total),
         progress_width |-> ProgressWidth(c.passed, c.total),
         issues_found |-> Len(issues),
         test_items |-> TestItems(Slice(tests, TestCap)),
         more_tests |-> IF Len(tests) > TestCap
                        THEN <<Len(tests) - TestCap>> ELSE <<>>,
         issue_section |-> issues # <<>>,
         issue_items |-> IssueItems(Slice(issues, IssueCap)),
         more_issues |-> IF Len(issues) > IssueCap
                         THEN <<Len(issues) - IssueCap>> ELSE <<>>,
         footer_year |-> now]

\* the project configurations handed to the report
ProjectConfigs ==
    { [path |-> "/work/App", name |-> "App", is_workspace |-> TRUE,
       scheme |-> "App", bundle_id |-> "None"],
      [path |-> "/work/Lib", name |-> "Lib", is_workspace |-> FALSE,
       scheme |-> "LibTests", bundle_id |-> "com.example.lib"] }

\* the builds reported on: a workspace without a bundle identifier whose
\* build succeeded, and a project with one whose build failed
ReportedBuilds ==
    {[project_config |-> p, build_success |-> p.is_workspace] :
        p \in ProjectConfigs}

\* the readings of the clock
Clock == {2026, 2027}

\* n outcome records with distinct names: every third one failed
MakeTests(n) ==
    [i \in 1..n |->
        [name |-> <<"Suite", DOT, "test", i>>,
         status |-> IF i % 3 = 0 THEN "failed" ELSE "passed",
         duration |-> [m |-> i, e |-> 3]]]

\* n diagnostic records with distinct messages, of the three severities in
\* turn: build errors, build warnings and source findings
MakeIssues(n) ==
    [i \in 1..n |->
        IF i % 3 = 0
        THEN DiagnosticIssue("Build Error", "critical", <<"issue", i>>)
        ELSE IF i % 3 = 1
        THEN DiagnosticIssue("Build Warning", "warning", <<"issue", i>>)
        ELSE [category |-> "Code Quality", severity |-> "info",
              message |-> <<"issue", i>>, file |-> "A.swift",
              line |-> "None"]]

\* Render that cuts the list of diagnostic records it was handed down to
\* the records it displays: del issues[100:]
Render_TruncatesInput(now) ==
    /\ locals' = ReportCounts(args.tests, args.issues)
    /\ html' = generate_html(args.project_config, args.tests, args.issues,
                             args.build_success, now)
    /\ args' = [args EXCEPT !.issues = Slice(@, IssueCap)]

\* a call of generate_html on the arguments
Render(now) ==
    /\ locals' = ReportCounts(args.tests, args.issues)
    /\ html' = generate_html(args.project_config, args.tests, args.issues,
                             args.build_success, now)
    /\ UNCHANGED args

(***************************************************************************)
(* UltimatePipelineApp: the run state, the intents of the operator (on the *)
(* controller's thread, the tkinter main loop) and the worker threads      *)
(* build_thread, test_thread, diagnostics_thread and report_thread.  A     *)
(* worker is split                                                         *)
(* into steps at its accesses to the run state.  Its call of               *)
(* CommandRunner.run, which touches no run state, is two steps: the start  *)
(* of the tool and the return, with the outcomes of the machine above (a   *)
(* launch failure, a failure while streaming, a return at the end of the   *)
(* stream with the exit status of the tool).  The calls of _log and        *)
(* _set_status only queue a widget update with root.after and are left     *)
(* out.                                                                    *)
(***************************************************************************)
None == [none |-> TRUE]

\* the device offered by the target dialog
Target == [name |-> "iPhone", uuid |-> "00008030", type |-> "device"]

\* what a run of "xcodebuild clean build" may write and exit with
BuildRuns ==
    { [lines |-> << <<"main.swift:3:", SP, "error:", SP, "x", NL>>,
                    <<"ld:", SP, "Warning:", SP, "y", NL>> >>,
       returncode |-> 65],
      [lines |-> << <<"main.swift:9:", SP, "warning:", SP, "y", NL>> >>,
       returncode |-> 0] }

\* what a run of "xcodebuild test" may write and exit with
TestRuns ==
    { [lines |-> << CaseLine(<<"testSomething">>, PASSED, <<"0", DOT, "5">>)
                        \o <<NL>>,
                    CaseLine(<<"MyAppTests", DOT, "LoginTests", DOT,
                               "testValidLogin">>, PASSED,
                             <<"1", DOT, "5", "0">>) \o <<NL>>,
                    <<EXEC, "2", TESTS, "0", FAILS, NL>> >>,
       returncode |-> 0],
      [lines |-> << CaseLine(<<"LoginTests", DOT, "testValidLogin">>, FAILED,
                             <<"1", "2">>) \o <<NL>> >>,
       returncode |-> 65],
      [lines |-> << CaseLine(<<"testSomething">>, FAILED,
                             <<"1", DOT, "2", DOT, "3">>) \o <<NL>> >>,
       returncode |-> 65] }

\* str(swift_file) for the source file found under the project path
SourceFile(project_path) ==
    IF project_path = "/work/App" THEN "/work/App/A.swift"
    ELSE "/work/Lib/A.swift"

\* what DiagnosticsEngine.analyze_source_code may return for the source
\* tree under the project path
SourceFindings(project_path) ==
    { <<>>,
      << [category |-> "Code Quality", severity |-> "warning",
          message |-> <<"Force try detected in A.swift">>,
          file |-> SourceFile(project_path), line |-> "None"],
         [category |-> "Code Quality", severity |-> "info",
          message |-> <<"Very long file: A.swift">>,
          file |-> SourceFile(project_path), line |-> "None"] >> }

\* what analyze_source_code may return for the trees of all the projects
AllFindings == UNION {SourceFindings(p.path) : p \in ProjectConfigs}

\* what reading the stream may raise: bytes that cannot be decoded, or the
\* line sink, which touches a widget from the worker thread
StreamErrors == {"UnicodeDecodeError"}

\* the runs of the tool a worker of the kind may meet
ToolRuns(kind) == IF kind = "build" THEN BuildRuns ELSE TestRuns

\* the texts run may return to a worker of the kind: the whole output of a
\* run of the tool, or nothing
Outputs(kind) == {join(r.lines) : r \in ToolRuns(kind)} \cup {<<>>}

\* TestParser.parse_results on the texts run may return to test_thread
ParsedOutput == [text \in Outputs("test") |-> parse_results(text)]

\* DiagnosticsEngine.analyze_build_output on the texts run may return to
\* build_thread
ScannedOutput == [text \in Outputs("build") |-> analyze_build_output(text)]

\* a worker before its first step
NewThread(kind) ==
    [kind |-> kind, pc |-> "started", tool |-> NoResult, ret |-> NoResult]

\* list.extend with the block put in front
Extend_InFront(list, block) == block \o list

\* list.extend(block)
Extend(list, block) == list \o block

\* threading.Thread(target=..., daemon=True).start()
StartThread(kind) ==
    /\ Len(threads) < MaxThreads
    /\ threads' = Append(threads, NewThread(kind))

\* messagebox.showwarning / showerror: the box stays open, and keeps the
\* main window from taking another intent, until the operator closes it
Show(message) ==
    /\ dialog' = message
    /\ UNCHANGED threads

\* lines 1324-1330, 1378-1384: the checks at the head of _build_project
\* and _run_tests, then the start of the worker
GuardedStart(kind) ==
    IF project_config = None THEN Show("Please open a project first")
    ELSE IF selected_target = None THEN Show("Please select a target first")
    ELSE StartThread(kind) /\ UNCHANGED dialog

\* lines 1209-1219: find_project returns a project or None
SelectProject(found) ==
    /\ dialog = ""
    /\ project_config' = found
    /\ dialog' = IF found = None
                 THEN "No Xcode project found in selected directory" ELSE ""
    /\ UNCHANGED <<selected_target, runState, stats, threads>>

\* lines 1292-1293
SelectTarget ==
    /\ dialog = ""
    /\ selected_target' = Target
    /\ UNCHANGED <<dialog, project_config, runState, stats, threads>>

\* lines 1323-1375
BuildProject ==
    /\ dialog = ""
    /\ GuardedStart("build")
    /\ UNCHANGED <<project_config, selected_target, runState, stats>>

\* lines 1377-1424
RunTests ==
    /\ dialog = ""
    /\ GuardedStart("test")
    /\ UNCHANGED <<project_config, selected_target, runState, stats>>

\* RunDiagnostics without the check of the project
RunDiagnostics_Unguarded ==
    /\ dialog = ""
    /\ StartThread("diagnostics")
    /\ UNCHANGED <<dialog, project_config, selected_target, runState, stats>>

\* lines 1426-1447
RunDiagnostics ==
    /\ dialog = ""
    /\ IF project_config = None THEN Show("Please open a project first")
       ELSE StartThread("diagnostics") /\ UNCHANGED dialog
    /\ UNCHANGED <<project_config, selected_target, runState, stats>>

\* lines 1449-1478
GenerateReport ==
    /\ dialog = ""
    /\ IF project_config = None THEN Show("Please open a project first")
       ELSE StartThread("report") /\ UNCHANGED dialog
    /\ UNCHANGED <<project_config, selected_target, runState, stats>>

\* the operator closes the message box
CloseDialog ==
    /\ dialog # ""
    /\ dialog' = ""
    /\ UNCHANGED <<project_config, selected_target, runState, stats, threads>>

\* a worker that has ended: its locals are gone
Ended(thread, pc) == [NewThread(thread.kind) EXCEPT !.pc = pc]

\* the worker i takes a step that changes only its own record
WorkerStep(i, next) == threads' = [threads EXCEPT ![i] = next]

\* lines 1337-1352, 207-214: the command is built from the project and the
\* target, and Popen starts the tool; without a project the thread ends in
\* an AttributeError
WorkerPopen(i, tool) ==
    /\ threads[i].kind \in {"build", "test"}
    /\ threads[i].pc = "started"
    /\ tool \in ToolRuns(threads[i].kind)
    /\ IF project_config = None \/ selected_target = None
       THEN WorkerStep(i, Ended(threads[i], "crashed"))
       ELSE WorkerStep(i, [threads[i] EXCEPT !.pc = "loop", !.tool = tool])
    /\ UNCHANGED <<dialog, project_config, selected_target, runState, stats>>

\* lines 207-214, 227-228: Popen raises and run returns the error
WorkerPopenRaises(i, e) ==
    /\ threads[i].kind \in {"build", "test"}
    /\ threads[i].pc = "started"
    /\ project_config # None
    /\ selected_target # None
    /\ WorkerStep(i, [threads[i] EXCEPT !.pc = "returned",
                                        !.ret = ExceptTriple(e)])
    /\ UNCHANGED <<dialog, project_config, selected_target, runState, stats>>

\* lines 217-222, 227-228: reading the stream or the sink raises, and run
\* returns the error
WorkerRunRaises(i, e) ==
    /\ threads[i].pc = "loop"
    /\ WorkerStep(i, [threads[i] EXCEPT !.pc = "returned",
                                        !.ret = ExceptTriple(e)])
    /\ UNCHANGED <<dialog, project_config, selected_target, runState, stats>>

\* lines 217-226: every line is read and passed to _append_build_log up to
\* the end of the stream, the tool has exited and run returns
WorkerRunReturns(i) ==
    /\ threads[i].pc = "loop"
    /\ WorkerStep(i, [threads[i] EXCEPT
           !.pc = "returned",
           !.ret = ReturnTriple(threads[i].tool.returncode,
                                threads[i].tool.lines)])
    /\ UNCHANGED <<dialog, project_config, selected_target, runState, stats>>

\* BuildSetFlag that also empties the outcome records of a failed build
BuildSetFlag_ClearsOutcomes(i) ==
    /\ threads[i].kind = "build"
    /\ threads[i].pc = "returned"
    /\ build_success' = threads[i].ret.succeeded
    /\ test_results' = IF threads[i].ret.succeeded THEN test_results ELSE <<>>
    /\ stats' = [stats EXCEPT !.build_stat =
                     IF threads[i].ret.succeeded
                     THEN <<"Success">> ELSE <<"Failed">>]
    /\ WorkerStep(i, [threads[i] EXCEPT !.pc = "flagged"])
    /\ UNCHANGED <<dialog, project_config, selected_target, diagnostic_issues>>

\* lines 1358-1367: self.build_success = success, and the build statistic
BuildSetFlag(i) ==
    /\ threads[i].kind = "build"
    /\ threads[i].pc = "returned"
    /\ build_success' = threads[i].ret.succeeded
    /\ stats' = [stats EXCEPT !.build_stat =
                     IF threads[i].ret.succeeded
                     THEN <<"Success">> ELSE <<"Failed">>]
    /\ WorkerStep(i, [threads[i] EXCEPT !.pc = "flagged"])
    /\ UNCHANGED <<dialog, project_config, selected_target, test_results,
                   diagnostic_issues>>

\* BuildExtend that scans the output of a successful build only
BuildExtend_OnlyOnSuccess(i) ==
    /\ threads[i].kind = "build"
    /\ threads[i].pc = "flagged"
    /\ LET build_issues == IF threads[i].ret.succeeded
                           THEN ScannedOutput[threads[i].ret.output]
                           ELSE <<>>
       IN  /\ diagnostic_issues' = Extend(diagnostic_issues, build_issues)
           /\ WorkerStep(i, Ended(threads[i], "done"))
    /\ UNCHANGED <<dialog, project_config, selected_target, test_results,
                   build_success, stats>>

\* lines 1371-1372: the scan of the output and the extend
BuildExtend(i) ==
    /\ threads[i].kind = "build"
    /\ threads[i].pc = "flagged"
    /\ LET build_issues == ScannedOutput[threads[i].ret.output]
       IN  /\ diagnostic_issues' = Extend(diagnostic_issues, build_issues)
           /\ WorkerStep(i, Ended(threads[i], "done"))
    /\ UNCHANGED <<dialog, project_config, selected_target, test_results,
                   build_success, stats>>

\* TestStore that replaces the records one by one and stops after the
\* first: test_results[:1] = tests[:1]
TestStore_FirstOnly(i) ==
    /\ threads[i].kind = "test"
    /\ threads[i].pc = "returned"
    /\ LET r == ParsedOutput[threads[i].ret.output]
       IN  /\ r.raised = ""
           /\ test_results' = Slice(r.tests, 1)
                                  \o SubSeq(test_results, 2, Len(test_results))
           /\ stats' = [stats EXCEPT !.test_stat = <<r.passed, r.total>>,
                                     !.pass_stat = <<r.passed>>]
    /\ WorkerStep(i, Ended(threads[i], "done"))
    /\ UNCHANGED <<dialog, project_config, selected_target, diagnostic_issues,
                   build_success>>

\* TestStore that keeps the records of the earlier runs:
\* self.test_results.extend(tests)
TestStore_Extends(i) ==
    /\ threads[i].kind = "test"
    /\ threads[i].pc = "returned"
    /\ LET r == ParsedOutput[threads[i].ret.output]
       IN  /\ r.raised = ""
           /\ test_results' = test_results \o r.tests
           /\ stats' = [stats EXCEPT !.test_stat = <<r.passed, r.total>>,
                                     !.pass_stat = <<r.passed>>]
    /\ WorkerStep(i, Ended(threads[i], "done"))
    /\ UNCHANGED <<dialog, project_config, selected_target, diagnostic_issues,
                   build_success>>

\* lines 1412-1421: the output is parsed, the outcome records are stored
\* and the test statistics are set
TestStore(i) ==
    /\ threads[i].kind = "test"
    /\ threads[i].pc = "returned"
    /\ LET r == ParsedOutput[threads[i].ret.output]
       IN  /\ r.raised = ""
           /\ test_results' = r.tests
           /\ stats' = [stats EXCEPT !.test_stat = <<r.passed, r.total>>,
                                     !.pass_stat = <<r.passed>>]
    /\ WorkerStep(i, Ended(threads[i], "done"))
    /\ UNCHANGED <<dialog, project_config, selected_target, diagnostic_issues,
                   build_success>>

\* line 1412: parse_results raises and the thread ends
TestParseRaises(i) ==
    /\ threads[i].kind = "test"
    /\ threads[i].pc = "returned"
    /\ ParsedOutput[threads[i].ret.output].raised # ""
    /\ WorkerStep(i, Ended(threads[i], "crashed"))
    /\ UNCHANGED <<dialog, project_config, selected_target, runState, stats>>

\* lines 1437-1443: the source tree is scanned, the findings are appended
\* and the issue statistic is set; without a project the thread ends in an
\* AttributeError
DiagnosticsScan(i, code_issues) ==
    /\ threads[i].kind = "diagnostics"
    /\ threads[i].pc = "started"
    /\ IF project_config = None
       THEN /\ WorkerStep(i, Ended(threads[i], "crashed"))
            /\ UNCHANGED <<diagnostic_issues, stats>>
       ELSE /\ code_issues \in SourceFindings(project_config.path)
            /\ diagnostic_issues' = Extend(diagnostic_issues, code_issues)
            /\ stats' = [stats EXCEPT !.issue_stat =
                             <<Len(diagnostic_issues')>>]
            /\ WorkerStep(i, Ended(threads[i], "done"))
    /\ UNCHANGED <<dialog, project_config, selected_target, test_results,
                   build_success>>

\* lines 1456-1465: report_thread renders the run state as it is and
\* writes the document to a file under the project path (html is the
\* file, args and locals are what the call was handed and counted);
\* without a project the thread ends in an AttributeError
ReportRender(i, now) ==
    /\ threads[i].kind = "report"
    /\ threads[i].pc = "started"
    /\ IF project_config = None
       THEN /\ WorkerStep(i, Ended(threads[i], "crashed"))
            /\ UNCHANGED reportVars
       ELSE /\ args' = [project_config |-> project_config,
                        tests |-> test_results,
                        issues |-> diagnostic_issues,
                        build_success |-> build_success]
            /\ locals' = ReportCounts(test_results, diagnostic_issues)
            /\ html' = generate_html(project_config, test_results,
                                     diagnostic_issues, build_success, now)
            /\ WorkerStep(i, Ended(threads[i], "done"))
    /\ UNCHANGED <<dialog, project_config, selected_target, runState, stats>>

\* lines 866-871: the run state after __init__, before the project is
\* detected
IdleApp ==
    /\ project_config = None
    /\ selected_target = None
    /\ test_results = <<>>
    /\ diagnostic_issues = <<>>
    /\ build_success = FALSE
    /\ stats = [build_stat |-> <<>>, test_stat |-> <<>>, pass_stat |-> <<>>,
                issue_stat |-> <<>>]
    /\ threads = <<>>
    /\ dialog = ""

AppNext ==
    \/ \E found \in ProjectConfigs \cup {None} :
           SelectProject(found)
           /\ UNCHANGED <<parseVars, runVars, scanVars, reportVars>>
    \/ SelectTarget /\ UNCHANGED <<parseVars, runVars, scanVars, reportVars>>
    \/ BuildProject /\ UNCHANGED <<parseVars, runVars, scanVars, reportVars>>
    \/ RunTests /\ UNCHANGED <<parseVars, runVars, scanVars, reportVars>>
    \/ RunDiagnostics
       /\ UNCHANGED <<parseVars, runVars, scanVars, reportVars>>
    \/ GenerateReport
       /\ UNCHANGED <<parseVars, runVars, scanVars, reportVars>>
    \/ CloseDialog /\ UNCHANGED <<parseVars, runVars, scanVars, reportVars>>
    \/ \E i \in 1..Len(threads), now \in Clock :
           ReportRender(i, now) /\ UNCHANGED <<parseVars, runVars, scanVars>>
    \/ \E i \in 1..Len(threads), tool \in BuildRuns \cup TestRuns :
           WorkerPopen(i, tool) 
           /\ UNCHANGED <<parseVars, runVars, scanVars, reportVars>>
    \/ \E i \in 1..Len(threads), e \in LaunchErrors :
           WorkerPopenRaises(i, e) 
           /\ UNCHANGED <<parseVars, runVars, scanVars, reportVars>>
    \/ \E i \in 1..Len(threads), e \in StreamErrors :
           WorkerRunRaises(i, e)
           /\ UNCHANGED <<parseVars, runVars, scanVars, reportVars>>
    \/ \E i \in 1..Len(threads) :
           WorkerRunReturns(i)
           /\ UNCHANGED <<parseVars, runVars, scanVars, reportVars>>
    \/ \E i \in 1..Len(threads) :
           BuildSetFlag(i) 
           /\ UNCHANGED <<parseVars, runVars, scanVars, reportVars>>
    \/ \E i \in 1..Len(threads) :
           BuildExtend(i) 
           /\ UNCHANGED <<parseVars, runVars, scanVars, reportVars>>
    \/ \E i \in 1..Len(threads) :
           TestStore(i) 
           /\ UNCHANGED <<parseVars, runVars, scanVars, reportVars>>
    \/ \E i \in 1..Len(threads) :
           TestParseRaises(i) 
           /\ UNCHANGED <<parseVars, runVars, scanVars, reportVars>>
    \/ \E i \in 1..Len(threads), code_issues \in AllFindings :
           DiagnosticsScan(i, code_issues) 
           /\ UNCHANGED <<parseVars, runVars, scanVars, reportVars>>

IdleParse ==
    /\ output = <<>>
    /\ parsed = NoResult

IdleRun ==
    /\ rpc = "start"
    /\ callback = TRUE
    /\ process = NoProcess
    /\ pipe = <<>>
    /\ produced = <<>>
    /\ output_lines = <<>>
    /\ sink = <<>>
    /\ ret = NoResult

IdleScan ==
    /\ build_output = <<>>
    /\ scanned = NoResult

\* generate_html has not been called and has nothing to render
IdleReport ==
    /\ args = [project_config |-> "None", tests |-> <<>>, issues |-> <<>>,
               build_success |-> FALSE]
    /\ locals = NoResult
    /\ html = NoResult

ReportNext ==
    \E now \in Clock : Render(now) /\ UNCHANGED <<parseVars, runVars, scanVars, appVars>>

ScanNext ==
    \/ \E line \in BuildLines :
           CaptureBuild(line) /\ UNCHANGED <<parseVars, runVars, reportVars, appVars>>
    \/ \E line \in BuildLines :
           CaptureLast(line) /\ UNCHANGED <<parseVars, runVars, reportVars, appVars>>
    \/ Scan /\ UNCHANGED <<parseVars, runVars, reportVars, appVars>>

ParseNext ==
    \/ \E line \in OutputLines :
           Capture(line) /\ UNCHANGED <<runVars, scanVars, reportVars, appVars>>
    \/ Parse /\ UNCHANGED <<runVars, scanVars, reportVars, appVars>>

RunNext ==
    \/ PopenStarts /\ UNCHANGED <<parseVars, scanVars, reportVars, appVars>>
    \/ \E e \in LaunchErrors :
           PopenRaises(e) /\ UNCHANGED <<parseVars, scanVars, reportVars, appVars>>
    \/ \E line \in ProcessLines :
           ProcessWrites(line) /\ UNCHANGED <<parseVars, scanVars, reportVars, appVars>>
    \/ \E code \in ExitCodes :
           ProcessExits(code) /\ UNCHANGED <<parseVars, scanVars, reportVars, appVars>>
    \/ ReadLine /\ UNCHANGED <<parseVars, scanVars, reportVars, appVars>>
    \/ \E e \in CallbackErrors :
           ReadLineCallbackRaises(e) /\ UNCHANGED <<parseVars, scanVars, reportVars, appVars>>
    \/ ReadLineRaises /\ UNCHANGED <<parseVars, scanVars, reportVars, appVars>>
    \/ ReadEOF /\ UNCHANGED <<parseVars, scanVars, reportVars, appVars>>

\* no text captured, nothing parsed, and no call of run under way
InitParse ==
    /\ output = <<>>
    /\ parsed = NoResult
    /\ rpc = "start"
    /\ callback = TRUE
    /\ process = NoProcess
    /\ pipe = <<>>
    /\ produced = <<>>
    /\ output_lines = <<>>
    /\ sink = <<>>
    /\ ret = NoResult
    /\ IdleScan
    /\ IdleReport
    /\ IdleApp

\* run is entered, with or without a line sink; the parser is not used
InitRun ==
    /\ output = <<>>
    /\ parsed = NoResult
    /\ rpc = "start"
    /\ callback \in BOOLEAN
    /\ process = NoProcess
    /\ pipe = <<>>
    /\ produced = <<>>
    /\ output_lines = <<>>
    /\ sink = <<>>
    /\ ret = NoResult
    /\ IdleScan
    /\ IdleReport
    /\ IdleApp

\* analyze_build_output is entered; the parser and run are not used
InitScan ==
    /\ build_output = <<>>
    /\ scanned = NoResult
    /\ IdleParse
    /\ IdleRun
    /\ IdleReport
    /\ IdleApp

\* generate_html is entered with a project, outcome records, diagnostic
\* records and the build-success flag; nothing else is used
InitReport ==
    /\ \E b \in ReportedBuilds, n \in 0..MaxTests, m \in 0..MaxIssues :
           args = [project_config |-> b.project_config,
                   tests |-> MakeTests(n), issues |-> MakeIssues(m),
                   build_success |-> b.build_success]
    /\ locals = NoResult
    /\ html = NoResult
    /\ IdleParse
    /\ IdleRun
    /\ IdleScan
    /\ IdleApp

\* the application after __init__: the run state is empty and
\* _auto_detect_project has found a project or none
InitApp ==
    /\ project_config \in ProjectConfigs \cup {None}
    /\ selected_target = None
    /\ test_results = <<>>
    /\ diagnostic_issues = <<>>
    /\ build_success = FALSE
    /\ stats = [build_stat |-> <<>>, test_stat |-> <<>>, pass_stat |-> <<>>,
                issue_stat |-> <<>>]
    /\ threads = <<>>
    /\ dialog = ""
    /\ IdleParse
    /\ IdleRun
    /\ IdleScan
    /\ IdleReport

\* parse_results on every text of up to MaxLines lines
SpecParse == InitParse /\ [][ParseNext]_vars

\* one call of CommandRunner.run with the process it spawns
SpecRun == InitRun /\ [][RunNext]_vars

\* analyze_build_output on every text of up to MaxLines lines
SpecScan == InitScan /\ [][ScanNext]_vars

\* generate_html on every argument tuple within the bounds
SpecReport == InitReport /\ [][ReportNext]_vars

\* the application: intents of the operator and the steps of the workers
SpecApp == InitApp /\ [][AppNext]_vars

(***************************************************************************)
(* What the claims speak of, stated on the text itself.                    *)
(***************************************************************************)
\* the text holds a match of the per-case pattern: some "Test Case '", then
\* no newline up to a status, one or more of [\d.], then " seconds)"
CaseLineIn(s) ==
    \E i \in {p \in 1..Len(s) : s[p] = TC} :
    \E j \in {p \in (i + 1)..Len(s) : s[p] \in {PASSED, FAILED}} :
    \E k \in {p \in (j + 1)..(Len(s) - 1) : s[p + 1] = SEC} :
        /\ \A q \in (i + 1)..(j - 1) : s[q] # NL
        /\ \A q \in (j + 1)..k : IsDurationChar(s[q])

\* the text holds a summary line "Executed N test(s), with F failure(s)"
SummaryLineIn(s) ==
    \E i \in {p \in 1..Len(s) : s[p] = EXEC} :
    \E a \in {p \in (i + 1)..(Len(s) - 1) : s[p + 1] \in {TESTS, TEST1}} :
    \E b \in {p \in (a + 2)..(Len(s) - 1) : s[p + 1] \in {FAILS, FAIL1}} :
        /\ \A q \in (i + 1)..a : IsDigit(s[q])
        /\ \A q \in (a + 2)..b : IsDigit(s[q])

\* parse_results has ended, by a return or by an exception
ParseEnded == parsed # NoResult

\* parse_results has returned its four values
ParseReturned == ParseEnded /\ parsed.raised = ""

DotCount(s) == Cardinality({i \in 1..Len(s) : s[i] = DOT})

\* the last two dot-separated components of a name with two dots or more:
\* what follows its last dot but one
AfterLastDotButOne(s) ==
    LET dots == {i \in 1..Len(s) : s[i] = DOT}
    IN  SubSeq(s, Max(dots \ {Max(dots)}) + 1, Len(s))

WellFormedDuration(match) == ~FloatRaises(match.group3)

IsPrefix(a, b) == Len(a) <= Len(b) /\ a = SubSeq(b, 1, Len(a))

(***************************************************************************)
(* Claims about TestParser.parse_results, checked under SpecParse.         *)
(***************************************************************************)
\* C1: for every text with a summary line "Executed N tests, with F
\* failures", parse_results returns total = N, failed = F, passed = N - F
\* of the first such line, whatever the number of per-case matches.
C1_SummaryIsAuthoritative ==
    (ParseEnded /\ SummaryLineIn(output)) =>
        /\ parsed.raised = ""
        /\ parsed.total = int(search(output).group1)
        /\ parsed.failed = int(search(output).group2)
        /\ parsed.passed =
               int(search(output).group1) - int(search(output).group2)

\* C2: for every text with no summary line and at least one per-case match,
\* parse_results returns total = the number of records, passed and failed =
\* the numbers of records with that status.
C2_TotalsCountRecords ==
    (ParseEnded /\ ~SummaryLineIn(output) /\ CaseLineIn(output)) =>
        /\ parsed.raised = ""
        /\ parsed.tests # <<>>
        /\ parsed.total = Len(parsed.tests)
        /\ parsed.passed = CountStatus(parsed.tests, "passed")
        /\ parsed.failed = CountStatus(parsed.tests, "failed")

\* C3: for every text that matches neither the per-case pattern nor the
\* summary pattern, parse_results returns no record and total = passed =
\* failed = 0, and does not raise.
C3_NoMatchGivesZeros ==
    (ParseEnded /\ ~CaseLineIn(output) /\ ~SummaryLineIn(output)) =>
        parsed = [raised |-> "", tests |-> <<>>,
                  total |-> 0, passed |-> 0, failed |-> 0]

\* C3 witness: a text of two lines or more that holds pieces of both
\* patterns and a match of neither has been parsed.
C3_Witness ==
    /\ ParseEnded
    /\ ~CaseLineIn(output) /\ ~SummaryLineIn(output)
    /\ \E i, j \in 1..Len(output) :
           /\ i < j
           /\ output[i] = TC
           /\ output[j] = SEC
    /\ \E i \in 1..Len(output) : output[i] = EXEC

\* C4: every result of parse_results has total = passed + failed.
C4_TotalIsPassedPlusFailed ==
    ParseReturned => parsed.total = parsed.passed + parsed.failed

\* C4 witness: a result taken from a summary line that disagrees with the
\* number of records.
C4_Witness ==
    /\ ParseReturned
    /\ SummaryLineIn(output)
    /\ parsed.tests # <<>>
    /\ parsed.total # Len(parsed.tests)
    /\ parsed.passed # CountStatus(parsed.tests, "passed")

\* C5: every match of the per-case pattern becomes exactly one record with
\* the match's status and duration, in the order of the matches.
C5_EveryMatchOneRecord ==
    ParseEnded =>
        /\ parsed.raised = ""
        /\ Len(parsed.tests) = Len(finditer(output))
        /\ \A i \in 1..Len(parsed.tests) :
               /\ parsed.tests[i].status = finditer(output)[i].group2
               /\ parsed.tests[i].duration = float(finditer(output)[i].group3)

\* C6: when a match's duration text is no float, parse_results leaves that
\* record out and still returns the records of the other matches.
C6_MalformedDurationRejected ==
    (ParseEnded /\ \E i \in 1..Len(finditer(output)) :
                       ~WellFormedDuration(finditer(output)[i])) =>
        /\ parsed.raised = ""
        /\ LET kept == SelectSeq(finditer(output), WellFormedDuration)
           IN  parsed.tests = [i \in 1..Len(kept) |-> TestResult(kept[i])]

\* C7: the name of every record is the matched identifier itself when that
\* has no dot or one dot (two components), and its last two components
\* joined by a dot when it has more.
C7_NameIsLastTwoComponents ==
    ParseReturned =>
        \A i \in 1..Len(parsed.tests) :
            LET raw == finditer(output)[i].group1
            IN  parsed.tests[i].name =
                    IF DotCount(raw) <= 1 THEN raw ELSE AfterLastDotButOne(raw)

\* C7 witness: one result holds a name without a dot, a name of two
\* components and a name cut down from three components.
C7_Witness ==
    /\ ParseReturned
    /\ \E i, j, k \in 1..Len(parsed.tests) :
           /\ DotCount(finditer(output)[i].group1) = 0
           /\ DotCount(finditer(output)[j].group1) = 1
           /\ DotCount(finditer(output)[k].group1) = 2
           /\ parsed.tests[k].name = <<"LoginTests", DOT, "testValidLogin">>
           /\ parsed.tests[k].name # finditer(output)[k].group1

(***************************************************************************)
(* Claims about CommandRunner.run, checked under SpecRun.                  *)
(***************************************************************************)
\* run has ended: it has returned its triple
RunEnded == rpc \in {"returned", "except"}

\* C8 as claimed: run returns succeeded = true if and only if the spawned
\* process exited with status zero.
C8_SucceededIffExitZero ==
    RunEnded => (ret.succeeded <=> process.returncode = <<0>>)

\* C8 as amended: succeeded is true if and only if the stream was read to
\* its end without an exception and the process exited with status zero; a
\* nonzero exit after a complete read returns (false, output, "").
C8_SucceededIffCleanExitZero ==
    RunEnded =>
        /\ ret.succeeded <=> (rpc = "returned" /\ process.returncode = <<0>>)
        /\ (rpc = "returned" /\ process.returncode # <<0>>) =>
               ret = [succeeded |-> FALSE, output |-> join(produced),
                      error |-> ""]

\* C8 witness: a process that wrote lines and exited with a nonzero status
\* which is not 1, read to the end.
C8_Witness ==
    /\ rpc = "returned"
    /\ produced # <<>>
    /\ process.returncode \notin {<<0>>, <<1>>}
    /\ ~ret.succeeded

\* C9 as claimed: the lines passed to the sink are exactly the lines the
\* process produced, in order, each once, and the returned output is
\* their concatenation.
C9_NoLineDropped ==
    (RunEnded /\ callback) =>
        /\ sink = produced
        /\ ret.output = join(produced)

\* C9 as amended: the lines passed to the sink are at every moment the
\* first lines the process produced, in order and each once; when the
\* stream is read to its end without an exception they are all of them and
\* the returned output is their concatenation; after an exception the
\* returned output is empty.
C9_NoLineDroppedOnCleanRead ==
    /\ callback => IsPrefix(sink, produced)
    /\ ~callback => sink = <<>>
    /\ rpc = "returned" =>
           /\ callback => sink = produced
           /\ ret.output = join(produced)
    /\ rpc = "except" => ret.output = <<>>

\* C9 witness: two different lines were produced, forwarded and returned.
C9_Witness ==
    /\ rpc = "returned"
    /\ callback
    /\ Len(produced) >= 2
    /\ produced[1] # produced[2]
    /\ ret.output # <<>>

\* C10: when the executable cannot be launched, run returns succeeded =
\* false, an empty output and a non-empty error string, and the sink is
\* never called.
C10_LaunchFailureReturnsError ==
    process.state = "failed" =>
        /\ rpc = "except"
        /\ ret.succeeded = FALSE
        /\ ret.output = <<>>
        /\ ret.error # ""
        /\ sink = <<>>

\* C10 witness: a launch failed in a call that was given a sink.
C10_Witness ==
    /\ process.state = "failed"
    /\ callback
    /\ ret # NoResult

(***************************************************************************)
(* Claims about DiagnosticsEngine.analyze_build_output, under SpecScan.    *)
(***************************************************************************)
\* analyze_build_output has returned
ScanEnded == scanned # NoResult

\* the position of the k-th newline of the text (0 for k = 0, one past the
\* end of the text when it has fewer)
NthNewline(text, k) ==
    LET at == {p \in 1..Len(text) :
                  /\ text[p] = NL
                  /\ Cardinality({q \in 1..p : text[q] = NL}) = k}
    IN  IF k = 0 THEN 0 ELSE IF at = {} THEN Len(text) + 1 ELSE Min(at)

\* the k-th line of the text, without its line end
RawLine(text, k) ==
    SubSeq(text, NthNewline(text, k - 1) + 1, NthNewline(text, k) - 1)

\* the line holds "error:" in some spelling of capitals and small letters
HasErrorMarker(line) ==
    \E i \in 1..Len(line) : line[i] \in {"error:", "Error:", "ERROR:"}

\* the line holds "warning:" in some spelling
HasWarningMarker(line) ==
    \E i \in 1..Len(line) : line[i] \in {"warning:", "Warning:"}

\* the lines of the text that hold a marker
MarkedLines(text) ==
    {k \in 1..(LineCount(text) + 1) :
        HasErrorMarker(RawLine(text, k)) \/ HasWarningMarker(RawLine(text, k))}

\* C19: every line of build output yields at most one record: the lines
\* with a marker yield one each, in line order, a critical "Build Error"
\* when the line holds "error:" (also when it holds "warning:" too), a
\* "Build Warning" of severity warning otherwise; other lines yield none.
C19_OneRecordPerMarkedLine ==
    ScanEnded =>
        LET marked == MarkedLines(build_output)
        IN  /\ Len(scanned.issues) = Cardinality(marked)
            /\ \A k \in marked :
                   LET line == RawLine(build_output, k)
                       r == scanned.issues[
                                Cardinality({m \in marked : m <= k})]
                   IN  /\ r.message = strip(line)
                       /\ r.category = IF HasErrorMarker(line)
                                       THEN "Build Error" ELSE "Build Warning"
                       /\ r.severity = IF HasErrorMarker(line)
                                       THEN "critical" ELSE "warning"

\* C19 witness: a scanned text with a line that holds both markers, the
\* warning first, followed by a line that holds a warning marker only.
C19_Witness ==
    /\ ScanEnded
    /\ \E k \in 1..LineCount(build_output) :
           /\ HasWarningMarker(RawLine(build_output, k))
           /\ HasErrorMarker(RawLine(build_output, k))
           /\ k + 1 \in MarkedLines(build_output)
           /\ ~HasErrorMarker(RawLine(build_output, k + 1))
    /\ Len(scanned.issues) = 2
    /\ scanned.issues[1].category = "Build Error"
    /\ scanned.issues[2].category = "Build Warning"

(***************************************************************************)
(* Claims about ReportGenerator.generate_html, under SpecReport.           *)
(***************************************************************************)
\* generate_html has returned
Rendered == html # NoResult

\* the number of records of the sequence whose field has the value
CountField(seq, field, value) ==
    Cardinality({i \in 1..Len(seq) : seq[i][field] = value})

\* C20: truncating the two lists never changes the counts.  The document
\* lists the first 100 diagnostic records in their order, followed by one
\* indicator of the n - 100 records left out when n > 100 and by none
\* otherwise, and the first 50 outcome records likewise; the issue count,
\* the severity counts and passed / failed / total are taken over all the
\* records handed in.
C20_TruncationKeepsCounts ==
    Rendered =>
        LET n == Len(args.issues)
            t == Len(args.tests)
        IN  /\ Len(html.issue_items) = IF n > 100 THEN 100 ELSE n
            /\ \A i \in 1..Len(html.issue_items) :
                   /\ html.issue_items[i].message = args.issues[i].message
                   /\ html.issue_items[i].severity = args.issues[i].severity
            /\ html.more_issues = IF n > 100 THEN <<n - 100>> ELSE <<>>
            /\ html.issues_found = n
            /\ locals.critical_issues
                   = CountField(args.issues, "severity", "critical")
            /\ locals.warning_issues
                   = CountField(args.issues, "severity", "warning")
            /\ locals.info_issues
                   = CountField(args.issues, "severity", "info")
            /\ Len(html.test_items) = IF t > 50 THEN 50 ELSE t
            /\ \A i \in 1..Len(html.test_items) :
                   html.test_items[i].name = args.tests[i].name
            /\ html.more_tests = IF t > 50 THEN <<t - 50>> ELSE <<>>
            /\ html.tests_passed = CountField(args.tests, "status", "passed")
            /\ html.tests_failed = CountField(args.tests, "status", "failed")
            /\ html.of_tests = t

\* C20 witness: a document rendered from 120 diagnostic records and more
\* than 50 outcome records, with a critical record and a failed outcome
\* among those left out of the lists.
C20_Witness ==
    /\ Rendered
    /\ Len(args.issues) = 120
    /\ \E i \in 101..120 : args.issues[i].severity = "critical"
    /\ html.more_issues = <<20>>
    /\ Len(html.issue_items) = 100
    /\ html.issues_found = 120
    /\ Len(args.tests) > 50
    /\ args.tests[Len(args.tests)].status = "failed"
    /\ html.more_tests # <<>>

(***************************************************************************)
(* Further claims about CommandRunner.run, under SpecRun.                  *)
(***************************************************************************)
\* C12: run returns only after the process it spawned has exited and after
\* every line the process wrote has been passed to the sink, so that a
\* stage never parses while lines are still being streamed.
C12_ReturnsAfterExitAndForwarding ==
    (RunEnded /\ process.state \in {"running", "exited"}) =>
        /\ process.state = "exited"
        /\ callback => sink = produced

(***************************************************************************)
(* Claims about the stages of UltimatePipelineApp, under SpecApp.          *)
(***************************************************************************)
\* the worker i takes, in this step, its own step from pc to next
Steps(i, pc, next) ==
    /\ i \in 1..Len(threads)
    /\ threads[i].pc = pc
    /\ threads'[i].pc = next

\* the run of the worker i started the tool, read its stream to the end
\* and returned through line 226
ReturnedNormally(i) ==
    /\ threads[i].pc \in {"returned", "flagged"}
    /\ threads[i].tool # NoResult
    /\ threads[i].ret.error = ""

Stepped(i) == i \in 1..Len(threads) /\ threads'[i] # threads[i]

\* the worker i runs a build or test invocation and has not ended
InFlight(i) ==
    /\ threads[i].kind \in {"build", "test"}
    /\ threads[i].pc \notin {"done", "crashed"}

\* C13: at most one build or test invocation is in flight: none is started
\* while the worker of an earlier one has not ended.
C13_AtMostOneInvocationInFlight ==
    Cardinality({i \in 1..Len(threads) : InFlight(i)}) <= 1

\* C14: the outcome records, the diagnostic records, the build-success
\* flag and the statistics change only in steps of the controller, never
\* in a step of a worker thread.
C14_WorkersNeverWriteRunState ==
    [][(runState' # runState \/ stats' # stats)
          => \A i \in 1..Len(threads) : ~Stepped(i)]_vars

\* C15: the step that completes a test stage leaves as outcome records
\* exactly the records parsed from the output of that stage's run, and no
\* record of an earlier run.
C15_TestStageReplacesOutcomes ==
    [][\A i \in 1..Len(threads) :
          (threads[i].kind = "test" /\ Steps(i, "returned", "done"))
          => test_results' = parse_results(threads[i].ret.output).tests]_vars

\* C15 witness: two test stages have completed and the outcome records are
\* the one record of the run whose case failed: the records the other
\* stage stored, or this record stored once before, did not remain.
C15_Witness ==
    /\ Len(threads) = 2
    /\ \A i \in 1..2 : threads[i].kind = "test" /\ threads[i].pc = "done"
    /\ Len(test_results) = 1
    /\ test_results[1].status = "failed"
    /\ stats.test_stat = <<0, 1>>

\* the records a worker that is about to extend the diagnostic records
\* may append: the scan of its build output, or findings in the sources
Block(i) ==
    IF threads[i].kind = "build"
    THEN {analyze_build_output(threads[i].ret.output)}
    ELSE IF project_config = None THEN {}
    ELSE SourceFindings(project_config.path)

\* C16: the diagnostic records only grow, at their end, by the whole block
\* of one build stage or one source-diagnostics stage at a time, in the
\* order of that block; no record is removed, moved or put between the
\* records of another block, also when stages overlap.
C16_DiagnosticsOnlyAccumulate ==
    [][/\ IsPrefix(diagnostic_issues, diagnostic_issues')
       /\ diagnostic_issues' # diagnostic_issues
          => \E i \in 1..Len(threads) :
                 /\ Steps(i, "flagged", "done") \/ Steps(i, "started", "done")
                 /\ threads[i].kind \in {"build", "diagnostics"}
                 /\ \E block \in Block(i) :
                        diagnostic_issues' = diagnostic_issues \o block]_vars

\* C16 witness: a build stage was started before a source-diagnostics
\* stage and ended after it: the two findings come first, the two records
\* of the build output after them.
C16_Witness ==
    /\ Len(threads) = 2
    /\ threads[1].kind = "build" /\ threads[1].pc = "done"
    /\ threads[2].kind = "diagnostics" /\ threads[2].pc = "done"
    /\ Len(diagnostic_issues) = 4
    /\ diagnostic_issues[1].category = "Code Quality"
    /\ diagnostic_issues[2].category = "Code Quality"
    /\ diagnostic_issues[3].category = "Build Error"
    /\ diagnostic_issues[4].category = "Build Warning"

\* C17: no step of a build stage changes the outcome records, and no step
\* of a test stage changes the diagnostic records or the build-success
\* flag, whether the stage succeeds, fails or cannot launch its tool.
C17_StagesKeepToTheirState ==
    [][\A i \in 1..Len(threads) :
          Stepped(i) =>
              /\ threads[i].kind = "build" => test_results' = test_results
              /\ threads[i].kind = "test" =>
                     /\ diagnostic_issues' = diagnostic_issues
                     /\ build_success' = build_success]_vars

\* C17 witness: a build that succeeded with a warning and a test stage
\* whose tool exited with a nonzero status after a failed case have both
\* ended: the flag and the diagnostic record are those of the build, the
\* outcome record is that of the test stage.
C17_Witness ==
    /\ \E i \in 1..Len(threads) :
           threads[i].kind = "test" /\ threads[i].pc = "done"
    /\ \E i \in 1..Len(threads) :
           threads[i].kind = "build" /\ threads[i].pc = "done"
    /\ build_success = TRUE
    /\ Len(diagnostic_issues) = 1
    /\ diagnostic_issues[1].category = "Build Warning"
    /\ Len(test_results) = 1
    /\ test_results[1].status = "failed"

\* run returned the error of a failed launch to the worker i
LaunchFailed(i) ==
    /\ threads[i].pc = "returned"
    /\ threads[i].ret.error \in {str(e) : e \in LaunchErrors}

\* C18: a test stage whose tool cannot be launched is aborted: it does not
\* parse the empty output and does not replace the outcome records stored
\* before.
C18_LaunchFailureKeepsOutcomes ==
    [][\A i \in 1..Len(threads) :
          (threads[i].kind = "test" /\ LaunchFailed(i) /\ Stepped(i))
          => /\ test_results' = test_results
             /\ threads'[i].pc # "done"]_vars

(***************************************************************************)
(* A further claim about TestParser.parse_results, under SpecParse.        *)
(***************************************************************************)
\* C25: the counts parse_results returns are never negative and failed
\* never exceeds total: 0 <= passed and 0 <= failed <= total, also for a
\* summary line whose number of failures is larger than the number of
\* tests executed.
C25_CountsInRange ==
    ParseReturned =>
        /\ 0 <= parsed.passed
        /\ 0 <= parsed.failed
        /\ parsed.failed <= parsed.total

(***************************************************************************)
(* Further claims about ReportGenerator.generate_html, under SpecReport.   *)
(***************************************************************************)
\* C21: for no outcome records the success rate is rendered as 0.0 per
\* cent (and the width of the progress bar as 0) without a division; for
\* some records the rate is passed / total * 100, rendered to the nearest
\* tenth.
C21_SuccessRate ==
    Rendered =>
        LET total == Len(args.tests)
            passed == CountField(args.tests, "status", "passed")
            tenths == html.success_rate
            off == tenths * total - passed * 1000
        IN  IF total = 0
            THEN /\ tenths = 0
                 /\ html.progress_width.num = 0
            ELSE /\ 2 * off <= total
                 /\ 2 * off >= 0 - total
                 /\ html.progress_width.num * total
                        = passed * 100 * html.progress_width.den

\* C21 witness: a document rendered from no outcome records, some
\* diagnostic records and a project: the rate is 0.0 per cent.
C21_Witness ==
    /\ Rendered
    /\ args.tests = <<>>
    /\ args.issues # <<>>
    /\ html.success_rate = 0
    /\ html.tests_passed = 0
    /\ html.of_tests = 0

\* the document without the readings of the clock
WithoutTimestamp(doc) ==
    [f \in DOMAIN doc \ {"generated_on", "footer_year"} |-> doc[f]]

C24_ReportCountsAreParsedCounts ==
    ParseReturned =>
        LET shown == ReportCounts(parsed.tests, <<>>)
        IN  /\ shown.passed = parsed.passed
            /\ shown.failed = parsed.failed
            /\ shown.total = parsed.total

(***************************************************************************)
(* Further claims about the stages of UltimatePipelineApp, under SpecApp.  *)
(***************************************************************************)
\* C26: at every moment, also while test stages overlap, the outcome
\* records are none or the whole list parse_results returned for the
\* output of one run: never records of two runs, never a part of a list.
C26_OutcomesOfOneRun ==
    \/ test_results = <<>>
    \/ \E text \in Outputs("test") :
           /\ ParsedOutput[text].raised = ""
           /\ test_results = ParsedOutput[text].tests

\* C26 witness: the records of one test stage are stored while a second
\* test stage, started before the first ended, has its output and is about
\* to store.
C26_Witness ==
    /\ Len(threads) = 2
    /\ threads[1].kind = "test" /\ threads[1].pc = "returned"
    /\ threads[1].ret.output # <<>>
    /\ threads[2].kind = "test" /\ threads[2].pc = "done"
    /\ Len(test_results) = 2

\* the warnings of a rejected intent
Warnings == {"Please open a project first", "Please select a target first"}

\* C27: a worker is started only by an intent that finds a project loaded
\* and, for a build or test worker, a target selected; a build or test
\* worker starts its tool only while both are set; and an intent that is
\* rejected with a warning starts no worker and leaves the outcome
\* records, the diagnostic records and the build-success flag as they were.
C27_NoStageWithoutProjectOrTarget ==
    [][/\ \A i \in 1..Len(threads') :
              i > Len(threads) =>
                  /\ project_config # None
                  /\ threads'[i].kind \in {"build", "test"}
                         => selected_target # None
       /\ \A i \in 1..Len(threads) :
              (/\ threads[i].kind \in {"build", "test"}
               /\ threads[i].pc = "started"
               /\ threads'[i].pc \in {"loop", "returned"})
              => project_config # None /\ selected_target # None
       /\ (dialog = "" /\ dialog' \in Warnings)
              => runState' = runState /\ threads' = threads]_vars

\* C27 witness: with a project loaded, findings stored and no target
\* selected, a build or test intent was rejected: the warning is open, no
\* build or test worker exists and the findings are in place.
C27_Witness ==
    /\ dialog = "Please select a target first"
    /\ project_config # None
    /\ selected_target = None
    /\ Len(diagnostic_issues) = 2
    /\ \A i \in 1..Len(threads) : threads[i].kind = "diagnostics"

(***************************************************************************)
(* C23: the report of a project and the records of another one             *)
(***************************************************************************)

\* the records handed to a rendering that name a source file name one of
\* the tree of the project the rendering was made for
RecordsOfProject(call) ==
    \A k \in 1..Len(call.issues) :
        call.issues[k].file \in {"None", SourceFile(call.project_config.path)}

\* C23: every report rendered by the report worker holds only records of
\* stages that ran on the project it was rendered for: no finding in it
\* names a source file of another project's tree.
C23_ReportHoldsOnlyRecordsOfItsProject ==
    html # NoResult => RecordsOfProject(args)

====
